---- MODULE Spec2Model ----
(***************************************************************************)
(* Model of the grid world (src/gridworld.py), of the Q-learning agent     *)
(* (src/agent.py) and of the training loop (src/driver.py).                *)
(*                                                                         *)
(* The environment part keeps the fields of GridWorld (walls, rewards,     *)
(* start, agent_pos, current_reward) and has one action per method call.   *)
(* The variable env_call records the last call on the environment: its     *)
(* arguments, the fields as they were when the call was made, and how the  *)
(* call ended (a returned value or a raised exception).                    *)
(*                                                                         *)
(* The agent part keeps the fields of QLearningAgent; agent_call records   *)
(* the last call on the agent with Q and epsilon as they were at the call. *)
(* Q-values and the policy parameters are floats: binary floating-point    *)
(* numbers of reduced precision, every operation rounded to nearest even.  *)
(*                                                                         *)
(* EnvSpec runs the environment alone over every configuration of the      *)
(* model, EpsilonSpec runs update_epsilon over every choice of epsilon,    *)
(* epsilon_decay and epsilon_min, LearnSpec runs learn on fresh and on     *)
(* loaded tables, ChooseSpec runs choose_action, AgentSpec runs the three  *)
(* on a fresh agent, PersistSpec runs save, load and the constructor.      *)
(* TrainSpec runs train_agent (FairTrainSpec adds that it keeps running),  *)
(* UseSpec runs the environment under any caller and under train_agent.    *)
(***************************************************************************)
EXTENDS Integers, Sequences, FiniteSets, TLC

VARIABLES
    walls,           \* GridWorld.walls: set of cells
    rewards,         \* GridWorld.rewards: ordered sequence of cells
    start,           \* GridWorld.start
    agent_pos,       \* GridWorld.agent_pos
    current_reward,  \* GridWorld.current_reward (0-based index into rewards)
    env_call,        \* last call on the environment and its outcome
    actions,         \* QLearningAgent.actions: list of actions
    alpha,           \* QLearningAgent.alpha
    gamma,           \* QLearningAgent.gamma
    epsilon,         \* QLearningAgent.epsilon
    epsilon_decay,   \* QLearningAgent.epsilon_decay
    epsilon_min,     \* QLearningAgent.epsilon_min
    Q,               \* QLearningAgent.Q: state -> (action -> value)
    agent_call,      \* last call on the agent, with Q and epsilon as they were
    ncalls,          \* number of calls made on the agent
    file,            \* the model file save writes and load reads
    train            \* train_agent: its position and its local variables

envVars == <<walls, rewards, start, agent_pos, current_reward, env_call>>
agentVars == <<actions, alpha, gamma, epsilon, epsilon_decay, epsilon_min, Q,
               agent_call, ncalls>>
otherVars == <<file, train>>
vars == <<envVars, agentVars, otherVars>>

----------------------------------------------------------------------------
(* Bounds of the model.                                                    *)

\* the grid is GridSize x GridSize
GridSize == 2
\* longest reward sequence a configuration holds
MaxRewards == 2
\* The floating-point numbers of the model: binary, round-to-nearest-even, like
\* Python's float (IEEE-754 binary64: 53 significant bits, smallest subnormal
\* 2^-1074), with MantissaBits significant bits and smallest subnormal
\* 2^-FracBits.
MantissaBits == 3
FracBits == 5
\* most calls on the agent in one behaviour of LearnSpec
MaxCalls == 2
\* train_agent's num_episodes and max_steps
NumEpisodes == 2
MaxSteps == 2
\* most calls of save, load and the constructor in one behaviour of PersistSpec
MaxFileOps == 3

----------------------------------------------------------------------------
(* Floating-point arithmetic.  A float is an integer n standing for the    *)
(* number n / Unit.  n is representable when |n| has at most MantissaBits  *)
(* significant bits; every operation rounds its exact result to the        *)
(* nearest representable number, ties to the even mantissa.                *)

Unit == 2 ^ FracBits
MantLimit == 2 ^ MantissaBits

Abs(x) == IF x < 0 THEN -x ELSE x

\* the spacing of the floats around num/den >= 0: the least power of two q
\* with num/den < q * MantLimit
RECURSIVE Quantum(_, _, _)
Quantum(num, den, q) ==
    IF num < den * q * MantLimit THEN q ELSE Quantum(num, den, 2 * q)

\* num/den >= 0 rounded to the nearest integer, ties to even
RoundHalfEven(num, den) ==
    LET lo  == num \div den
        rem == num % den
    IN  IF 2 * rem < den THEN lo
        ELSE IF 2 * rem > den THEN lo + 1
        ELSE IF lo % 2 = 0 THEN lo ELSE lo + 1

\* the float nearest to num/den (in units of 1/Unit), den > 0
FRound(num, den) ==
    LET Nearest(n, d) ==
            LET q == Quantum(Abs(n), d, 1)
                m == RoundHalfEven(Abs(n), d * q) * q
            IN  IF n < 0 THEN -m ELSE m
    IN  \* num and den bound as values, so that each is evaluated once
        CHOOSE r \in {Nearest(n, d) : n \in {num}, d \in {den}} : TRUE

IsFloat(n) == FRound(n, 1) = n

FAdd(x, y) == FRound(x + y, 1)
FSub(x, y) == FRound(x - y, 1)
FMul(x, y) == FRound(x * y, Unit)

\* an int used in float arithmetic (reward + ...), and a decimal literal n/d
FromInt(i) == FRound(i * Unit, 1)
Lit(n, d) == FRound(n * Unit, d)

\* Python's max over a non-empty collection of floats
FMax(S) == CHOOSE x \in S : \A y \in S : y <= x

\* the floats of [0, 1]
UnitFloats == {n \in 0 .. Unit : IsFloat(n)}

----------------------------------------------------------------------------
(* Configurations: GridWorld.__init__ stores its arguments unchecked.      *)

rows == GridSize
cols == GridSize

Cells == (0 .. rows - 1) \X (0 .. cols - 1)

\* The four actions of the docstring of step, and one string that is none of them.
Actions == {"up", "down", "left", "right"}
ActionArgs == Actions \cup {"jump"}

\* start as the driver passes it, (0, 0) (a wall there puts the start on a wall)
Starts == {<<0, 0>>}

\* no wall, or one wall anywhere in the grid
WallSets == {{}} \cup {{c} : c \in Cells}

RewardSeqs == UNION {[1 .. n -> Cells] : n \in 0 .. MaxRewards}

----------------------------------------------------------------------------
(* GridWorld.step, piece by piece.                                         *)

\* lines 41-50: the actions step accepts
ValidAction_Any(action) == TRUE

ValidAction(action) == action \in Actions

\* lines 38-48: the candidate cell of a valid action (step raises at line 50
\* before it uses the cell of any other action)
Move(pos, action) ==
    CASE action = "up"    -> <<pos[1] - 1, pos[2]>>
      [] action = "down"  -> <<pos[1] + 1, pos[2]>>
      [] action = "left"  -> <<pos[1], pos[2] - 1>>
      [] action = "right" -> <<pos[1], pos[2] + 1>>
      [] OTHER            -> pos

\* line 53
OutOfBounds(cell) ==
    cell[1] < 0 \/ cell[1] >= rows \/ cell[2] < 0 \/ cell[2] >= cols

NewPos_ThroughWalls(pos, action, w) ==
    LET cand == Move(pos, action)
    IN  IF OutOfBounds(cand) THEN pos ELSE cand

\* lines 52-60: the position after the move
NewPos(pos, action, w) ==
    LET cand == Move(pos, action)
        inb  == IF OutOfBounds(cand) THEN pos ELSE cand
    IN  IF inb \in w THEN pos ELSE inb

\* line 63: the subscript self.rewards[self.current_reward] raises IndexError
\* when the index is not below len(self.rewards) (the index is never negative)
SubscriptFails(rs, idx) == idx >= Len(rs)

OnCurrentReward_AnyReward(rs, idx, pos) == \E j \in 1 .. Len(rs) : rs[j] = pos

\* line 63: the comparison, Python's 0-based index on a 1-based sequence
OnCurrentReward(rs, idx, pos) == rs[idx + 1] = pos

RewardIndexAfter_ByCell(rs, idx, pos) ==
    LET at == {j \in 1 .. Len(rs) : rs[j] = pos}
    IN  IF at = {} THEN idx ELSE CHOOSE j \in at : \A k \in at : k <= j

\* lines 63-67: current_reward after the comparison
RewardIndexAfter(rs, idx, pos) ==
    IF OnCurrentReward(rs, idx, pos) THEN idx + 1 ELSE idx

\* lines 63-67: the reward
RewardFor(rs, idx, pos) == IF OnCurrentReward(rs, idx, pos) THEN 1 ELSE 0

\* line 70
Done(rs, idx) == idx >= Len(rs)

CallRecord(op, action, kind, state, reward, done) ==
    [op |-> op, action |-> action, pos |-> agent_pos, idx |-> current_reward,
     kind |-> kind, state |-> state, reward |-> reward, done |-> done]

reset_KeepProgress ==
    /\ agent_pos' = start
    /\ current_reward' = current_reward
    /\ env_call' = CallRecord("reset", "", "return", <<start, current_reward>>,
                              -1, FALSE)
    /\ UNCHANGED <<walls, rewards, start, agentVars>>

\* GridWorld.reset
reset ==
    /\ agent_pos' = start
    /\ current_reward' = 0
    /\ env_call' = CallRecord("reset", "", "return", <<start, 0>>, -1, FALSE)
    /\ UNCHANGED <<walls, rewards, start, agentVars>>

\* GridWorld.step
step(action) ==
    IF ~ValidAction(action)
    THEN \* line 50: raise ValueError, before any field is assigned
         /\ env_call' = CallRecord("step", action, "ValueError", <<>>, -1, FALSE)
         /\ UNCHANGED <<walls, rewards, start, agent_pos, current_reward, agentVars>>
    ELSE LET np == NewPos(agent_pos, action, walls) IN
         /\ agent_pos' = np
         /\ IF SubscriptFails(rewards, current_reward)
            THEN \* line 63 raises IndexError, agent_pos is already assigned
                 /\ current_reward' = current_reward
                 /\ env_call' = CallRecord("step", action, "IndexError", <<>>, -1, FALSE)
            ELSE LET idx == RewardIndexAfter(rewards, current_reward, np)
                 IN  /\ current_reward' = idx
                     /\ env_call' = CallRecord("step", action, "return", <<np, idx>>,
                                               RewardFor(rewards, current_reward, np),
                                               Done(rewards, idx))
         /\ UNCHANGED <<walls, rewards, start, agentVars>>

----------------------------------------------------------------------------
(* QLearningAgent.                                                         *)

Range(f) == {f[i] : i \in DOMAIN f}

\* the action lists and the states used as Q-table keys
ActionList == <<"up", "down", "left", "right">>
ShortActionList == <<"left", "right">>
QStates == {<<<<0, 0>>, 0>>, <<<<0, 1>>, 0>>}

EnsureState_Reset(q, acts, state) ==
    [s \in DOMAIN q \cup {state} |->
        IF s = state THEN [a \in Range(acts) |-> 0] ELSE q[s]]

EnsureState_Forget(q, acts, state) ==
    IF state \in DOMAIN q THEN q
    ELSE [s \in {state} |-> [a \in Range(acts) |-> 0]]

\* _ensure_state (lines 27-30): the table after the call
EnsureState(q, acts, state) ==
    IF state \in DOMAIN q THEN q
    ELSE [s \in DOMAIN q \cup {state} |->
             IF s = state THEN [a \in Range(acts) |-> 0] ELSE q[s]]

\* line 35: the outcomes of random.random() < epsilon, random() drawn from
\* [0, 1): true is possible when epsilon > 0, false when epsilon < 1
ExploreOutcomes(eps) ==
    {b \in BOOLEAN : (b => eps > 0) /\ (~b => eps < Unit)}

BestActions_First(row) == {CHOOSE a \in DOMAIN row : TRUE}

\* lines 39-40: the actions whose value is the maximum of the row
BestActions(row) ==
    LET max_value == FMax(Range(row))
    IN  {a \in DOMAIN row : row[a] = max_value}

MaxNextQ_IgnoreDone(q, next_state, done) == FMax(Range(q[next_state]))

\* line 49
MaxNextQ(q, next_state, done) ==
    IF done THEN 0 ELSE FMax(Range(q[next_state]))

TDUpdate_Overshoot(current_Q, al, ga, reward, max_next_Q) ==
    FAdd(current_Q,
         FMul(al, FAdd(FromInt(reward), FMul(ga, max_next_Q))))

\* line 51: current_Q + alpha * (reward + gamma * max_next_Q - current_Q)
TDUpdate(current_Q, al, ga, reward, max_next_Q) ==
    FAdd(current_Q,
         FMul(al, FSub(FAdd(FromInt(reward), FMul(ga, max_next_Q)), current_Q)))

AgentCall(op, state, action, reward, next_state, done) ==
    [op |-> op, state |-> state, action |-> action, reward |-> reward,
     next_state |-> next_state, done |-> done, Q |-> Q, epsilon |-> epsilon,
     kind |-> "return", explore |-> FALSE]

NoCall == [op |-> "init", state |-> <<>>, action |-> "", reward |-> 0,
           next_state |-> <<>>, done |-> FALSE, Q |-> <<>>, epsilon |-> 0,
           kind |-> "return", explore |-> FALSE]

\* QLearningAgent.choose_action: random.choice returns any member of its list
choose_action(state) ==
    LET q1 == EnsureState(Q, actions, state) IN
    \E explore \in ExploreOutcomes(epsilon) :
    \E chosen \in (IF explore THEN Range(actions) ELSE BestActions(q1[state])) :
        /\ Q' = q1
        /\ agent_call' = [AgentCall("choose_action", state, chosen, 0, <<>>, FALSE)
                             EXCEPT !.explore = explore]
        /\ ncalls' = ncalls + 1
        /\ UNCHANGED <<actions, alpha, gamma, epsilon, epsilon_decay, epsilon_min,
                       envVars>>

\* QLearningAgent.learn
learn(state, action, reward, next_state, done) ==
    LET q1 == EnsureState(Q, actions, state)
        q2 == EnsureState(q1, actions, next_state)
        current_Q  == q2[state][action]
        max_next_Q == MaxNextQ(q2, next_state, done)
    IN  /\ Q' = [q2 EXCEPT ![state][action] =
                     TDUpdate(current_Q, alpha, gamma, reward, max_next_Q)]
        /\ agent_call' = AgentCall("learn", state, action, reward, next_state, done)
        /\ ncalls' = ncalls + 1
        /\ UNCHANGED <<actions, alpha, gamma, epsilon, epsilon_decay, epsilon_min,
                       envVars>>

DecayedEpsilon_NoFloor(eps, decay, floor) == FMul(eps, decay)

\* line 55
DecayedEpsilon(eps, decay, floor) ==
    LET d == FMul(eps, decay) IN IF d > floor THEN d ELSE floor

\* QLearningAgent.update_epsilon
update_epsilon ==
    /\ epsilon' = DecayedEpsilon(epsilon, epsilon_decay, epsilon_min)
    /\ agent_call' = AgentCall("update_epsilon", <<>>, "", 0, <<>>, FALSE)
    /\ ncalls' = ncalls + 1
    /\ UNCHANGED <<actions, alpha, gamma, epsilon_decay, epsilon_min, Q, envVars>>

Pickle_NonZero(q) ==
    {<<s, {<<a, q[s][a]>> : a \in {b \in DOMAIN q[s] : q[s][b] # 0}}>> :
        s \in DOMAIN q}

\* pickle.dump of the dict (line 60): one item per key, the key with the
\* items of its inner dict; a float is written as its eight bytes
Pickle(q) ==
    {<<s, {<<a, q[s][a]>> : a \in DOMAIN q[s]}>> : s \in DOMAIN q}

\* pickle.load (line 65): the dict rebuilt from the items
Unpickle(data) ==
    LET Items(s) == (CHOOSE item \in data : item[1] = s)[2]
        Value(s, a) == (CHOOSE kv \in Items(s) : kv[1] = a)[2]
    IN  [s \in {item[1] : item \in data} |->
            [a \in {kv[1] : kv \in Items(s)} |-> Value(s, a)]]

\* QLearningAgent.__init__ (lines 10-25) with the given parameters
construct(al, ga, eps) ==
    /\ actions' = actions
    /\ alpha' = al
    /\ gamma' = ga
    /\ epsilon' = eps
    /\ epsilon_decay' = Lit(999, 1000)
    /\ epsilon_min' = Lit(1, 1000)
    /\ Q' = <<>>
    /\ agent_call' = AgentCall("__init__", <<>>, "", 0, <<>>, FALSE)
    /\ ncalls' = ncalls + 1
    /\ UNCHANGED <<envVars, file, train>>

\* QLearningAgent.save: open(filename, 'wb') creates or truncates the file
save ==
    /\ file' = [exists |-> TRUE, data |-> Pickle(Q), saved |-> Q]
    /\ agent_call' = AgentCall("save", <<>>, "", 0, <<>>, FALSE)
    /\ ncalls' = ncalls + 1
    /\ UNCHANGED <<actions, alpha, gamma, epsilon, epsilon_decay, epsilon_min, Q,
                   envVars, train>>

\* QLearningAgent.load: open(filename, 'rb') raises when there is no file
load ==
    /\ IF file.exists
       THEN /\ Q' = Unpickle(file.data)
            /\ agent_call' = AgentCall("load", <<>>, "", 0, <<>>, FALSE)
       ELSE /\ Q' = Q
            /\ agent_call' = [AgentCall("load", <<>>, "", 0, <<>>, FALSE)
                                 EXCEPT !.kind = "FileNotFoundError"]
    /\ ncalls' = ncalls + 1
    /\ UNCHANGED <<actions, alpha, gamma, epsilon, epsilon_decay, epsilon_min,
                   envVars, file, train>>

----------------------------------------------------------------------------
(* train_agent (src/driver.py).  train.pc is the position in the function: *)
(* "episode" at the head of the outer for, "choose", "step" and "learn"    *)
(* before lines 21, 22 and 23, "decay" before line 28, "return" after line *)
(* 30, "raised" when a call raised and the exception left the function.    *)
(* The other fields of train are the local variables.                      *)

LearnArgs_Swapped(t) == <<t.next_state, t.action, t.reward, t.state, t.done>>

LearnArgs_Advanced(t) == <<t.next_state, t.action, t.reward, t.next_state, t.done>>

\* line 23: the arguments of agent.learn
LearnArgs(t) == <<t.state, t.action, t.reward, t.next_state, t.done>>

AfterLearn_IgnoreDone(t) ==
    IF t.step + 1 < MaxSteps
    THEN [t EXCEPT !.pc = "choose", !.step = t.step + 1]
    ELSE [t EXCEPT !.pc = "decay"]

\* lines 20 and 26-27: break on done, else the next step of range(max_steps)
AfterLearn(t) ==
    IF t.done THEN [t EXCEPT !.pc = "decay"]
    ELSE IF t.step + 1 < MaxSteps
         THEN [t EXCEPT !.pc = "choose", !.step = t.step + 1]
         ELSE [t EXCEPT !.pc = "decay"]

\* lines 17-19: the next episode of range(num_episodes) starts with a reset
train_reset ==
    /\ train.pc = "episode"
    /\ train.episode < NumEpisodes
    /\ reset
    /\ train' = [train EXCEPT !.pc = IF MaxSteps > 0 THEN "choose" ELSE "decay",
                              !.state = env_call'.state,
                              !.total_reward = 0,
                              !.step = 0]
    /\ UNCHANGED file

\* line 21
train_choose ==
    /\ train.pc = "choose"
    /\ choose_action(train.state)
    /\ train' = [train EXCEPT !.pc = "step", !.action = agent_call'.action]
    /\ UNCHANGED file

\* line 22: an exception of env.step is not caught
train_step ==
    /\ train.pc = "step"
    /\ step(train.action)
    /\ train' = IF env_call'.kind = "return"
                THEN [train EXCEPT !.pc = "learn",
                                   !.next_state = env_call'.state,
                                   !.reward = env_call'.reward,
                                   !.done = env_call'.done]
                ELSE [train EXCEPT !.pc = "raised"]
    /\ UNCHANGED file

\* lines 23-27
train_learn ==
    /\ train.pc = "learn"
    /\ LET a == LearnArgs(train) IN learn(a[1], a[2], a[3], a[4], a[5])
    /\ train' = AfterLearn([train EXCEPT !.state = train.next_state,
                                         !.total_reward = train.total_reward + train.reward])
    /\ UNCHANGED file

train_decay_Skip ==
    /\ train.pc = "decay"
    /\ train' = [train EXCEPT !.pc = "episode", !.episode = train.episode + 1]
    /\ UNCHANGED <<envVars, agentVars, file>>

\* lines 28-29, the print left out
train_decay ==
    /\ train.pc = "decay"
    /\ update_epsilon
    /\ train' = [train EXCEPT !.pc = "episode", !.episode = train.episode + 1]
    /\ UNCHANGED file

\* line 30, when range(num_episodes) is exhausted
train_return ==
    /\ train.pc = "episode"
    /\ train.episode >= NumEpisodes
    /\ train' = [train EXCEPT !.pc = "return"]
    /\ UNCHANGED <<envVars, agentVars, file>>

----------------------------------------------------------------------------
(* Specifications.                                                         *)

\* QLearningAgent.__init__ with the default arguments of line 10
DefaultAgent ==
    /\ actions = ActionList
    /\ alpha = Lit(1, 10)
    /\ gamma = Lit(9, 10)
    /\ epsilon = Lit(1, 1)
    /\ epsilon_decay = Lit(999, 1000)
    /\ epsilon_min = Lit(1, 1000)
    /\ Q = <<>>
    /\ agent_call = NoCall
    /\ ncalls = 0

\* no model file written, train_agent not running
Idle ==
    /\ file = [exists |-> FALSE, data |-> <<>>, saved |-> <<>>]
    /\ train = [pc |-> "idle"]

\* GridWorld.__init__ as the driver calls it, on the grid of the model
DefaultEnv ==
    /\ walls = {}
    /\ rewards = <<<<0, 1>>>>
    /\ start = <<0, 0>>
    /\ agent_pos = start
    /\ current_reward = 0
    /\ env_call = [op |-> "init", action |-> "", pos |-> start, idx |-> 0,
                   kind |-> "return", state |-> <<>>, reward |-> -1, done |-> FALSE]

\* The environment alone: every configuration, any sequence of reset and step.
EnvInit ==
    /\ walls \in WallSets
    /\ rewards \in RewardSeqs
    /\ start \in Starts
    /\ agent_pos = start
    /\ current_reward = 0
    /\ env_call = [op |-> "init", action |-> "", pos |-> start, idx |-> 0,
                   kind |-> "return", state |-> <<>>, reward |-> -1, done |-> FALSE]
    /\ DefaultAgent
    /\ Idle

EnvNext ==
    /\ \/ reset
       \/ \E action \in ActionArgs : step(action)
    /\ UNCHANGED otherVars

EnvSpec == EnvInit /\ [][EnvNext]_vars

\* The exploration rate alone: every epsilon, epsilon_decay and epsilon_min the
\* constructor is documented to take, any number of update_epsilon calls.
EpsilonInit ==
    /\ DefaultEnv
    /\ actions = ActionList
    /\ alpha = Lit(1, 10)
    /\ gamma = Lit(9, 10)
    /\ epsilon \in UnitFloats
    /\ epsilon_decay \in UnitFloats \ {0}
    /\ epsilon_min \in UnitFloats
    /\ Q = <<>>
    /\ agent_call = NoCall
    /\ ncalls = 0
    /\ Idle

EpsilonNext == ncalls < MaxCalls /\ update_epsilon /\ UNCHANGED otherVars

EpsilonSpec == EpsilonInit /\ [][EpsilonNext]_vars

\* The learning rule alone.  The table is empty (a fresh agent) or holds values
\* already (a table that load installed, lines 62-65); any sequence of at most
\* MaxCalls learn calls follows.
SeedValues == {0, Lit(1, 1)}

SeedTables ==
    UNION {[K -> [Range(ShortActionList) -> SeedValues]] : K \in SUBSET QStates}

LearnInit ==
    /\ DefaultEnv
    /\ actions = ShortActionList
    /\ alpha \in {Lit(1, 10), Lit(1, 2), Lit(1, 1)}
    /\ gamma \in {Lit(9, 10), Lit(1, 1)}
    /\ epsilon = Lit(1, 1)
    /\ epsilon_decay = Lit(999, 1000)
    /\ epsilon_min = Lit(1, 1000)
    /\ Q \in SeedTables
    /\ agent_call = NoCall
    /\ ncalls = 0
    /\ Idle

LearnNext ==
    /\ ncalls < MaxCalls
    /\ \E state \in QStates, action \in Range(actions), reward \in {0, 1},
          next_state \in QStates, done \in BOOLEAN :
            learn(state, action, reward, next_state, done)
    /\ UNCHANGED otherVars

LearnSpec == LearnInit /\ [][LearnNext]_vars

\* The action choice alone: a table that is empty or holds values already,
\* an agent that always explores, never explores or does either, and at most
\* MaxCalls choose_action calls.
ChooseInit ==
    /\ DefaultEnv
    /\ actions = ShortActionList
    /\ alpha = Lit(1, 10)
    /\ gamma = Lit(9, 10)
    /\ epsilon \in {0, Lit(1, 2), Lit(1, 1)}
    /\ epsilon_decay = Lit(999, 1000)
    /\ epsilon_min = Lit(1, 1000)
    /\ Q \in SeedTables
    /\ agent_call = NoCall
    /\ ncalls = 0
    /\ Idle

ChooseNext ==
    /\ ncalls < MaxCalls
    /\ \E state \in QStates : choose_action(state)
    /\ UNCHANGED otherVars

ChooseSpec == ChooseInit /\ [][ChooseNext]_vars

\* A freshly constructed agent (empty table) and any sequence of at most
\* MaxCalls calls of choose_action, learn and update_epsilon.  epsilon_decay
\* is 0.5 here so that update_epsilon changes epsilon at the precision of
\* the model.
AgentInit ==
    /\ DefaultEnv
    /\ actions = ShortActionList
    /\ alpha = Lit(1, 2)
    /\ gamma = Lit(9, 10)
    /\ epsilon = Lit(1, 1)
    /\ epsilon_decay = Lit(1, 2)
    /\ epsilon_min = Lit(1, 1000)
    /\ Q = <<>>
    /\ agent_call = NoCall
    /\ ncalls = 0
    /\ Idle

AgentNext ==
    /\ ncalls < MaxCalls
    /\ \/ \E state \in QStates : choose_action(state)
       \/ \E state \in QStates, action \in Range(actions), reward \in {0, 1},
             next_state \in QStates, done \in BOOLEAN :
               learn(state, action, reward, next_state, done)
       \/ update_epsilon
    /\ UNCHANGED otherVars

AgentSpec == AgentInit /\ [][AgentNext]_vars

\* Saving and loading: an agent with any table of the family, then at most
\* MaxFileOps calls of save, load and of the constructor (a fresh agent, with
\* its own parameters, takes the place of the one that saved).
ConstructAlphas == {Lit(1, 10), Lit(1, 2)}
ConstructEpsilons == {0, Lit(1, 1)}

PersistInit ==
    /\ DefaultEnv
    /\ actions = ShortActionList
    /\ alpha = Lit(1, 10)
    /\ gamma = Lit(9, 10)
    /\ epsilon = Lit(1, 1)
    /\ epsilon_decay = Lit(999, 1000)
    /\ epsilon_min = Lit(1, 1000)
    /\ Q \in SeedTables
    /\ agent_call = NoCall
    /\ ncalls = 0
    /\ Idle

PersistNext ==
    /\ ncalls < MaxFileOps
    /\ \/ save
       \/ load
       \/ \E al \in ConstructAlphas, eps \in ConstructEpsilons :
             construct(al, Lit(9, 10), eps)

PersistSpec == PersistInit /\ [][PersistNext]_vars

\* train_agent.  The driver builds one environment (lines 9-15); the model
\* runs it on the configurations of TrainWalls and TrainRewards, which like
\* the driver's have start, walls and rewards on different cells.  The agent
\* has the constructor's defaults (line 7), except that epsilon_decay is
\* 0.875: 0.999 rounds to 1.0 at the precision of the model, and epsilon has
\* to decay for the run to go from exploring to exploiting.
TrainWalls == {{}, {<<1, 0>>}}

TrainRewards == {<<<<0, 1>>>>, <<<<0, 1>>, <<1, 1>>>>}

TrainInit ==
    /\ walls \in TrainWalls
    /\ rewards \in TrainRewards
    /\ start = <<0, 0>>
    /\ agent_pos = start
    /\ current_reward = 0
    /\ env_call = [op |-> "init", action |-> "", pos |-> start, idx |-> 0,
                   kind |-> "return", state |-> <<>>, reward |-> -1, done |-> FALSE]
    /\ actions = ActionList
    /\ alpha = Lit(1, 10)
    /\ gamma = Lit(9, 10)
    /\ epsilon = Lit(1, 1)
    /\ epsilon_decay = Lit(7, 8)
    /\ epsilon_min = Lit(1, 1000)
    /\ Q = <<>>
    /\ agent_call = NoCall
    /\ ncalls = 0
    /\ file = [exists |-> FALSE, data |-> <<>>, saved |-> <<>>]
    /\ train = [pc |-> "episode", episode |-> 0, step |-> 0, state |-> <<>>,
                action |-> "", next_state |-> <<>>, reward |-> 0, done |-> FALSE,
                total_reward |-> 0]

TrainNext ==
    \/ train_reset
    \/ train_choose
    \/ train_step
    \/ train_learn
    \/ train_decay
    \/ train_return

TrainSpec == TrainInit /\ [][TrainNext]_vars

\* train_agent is one sequential function: it takes its next step as long as
\* it has one
FairTrainSpec == TrainSpec /\ WF_vars(TrainNext)

\* The environment under both of its uses: a caller that makes any sequence
\* of reset and step calls (train.pc = "idle"), on every wall set of the
\* model and on reward sequences that are empty or hold the start cell, as
\* well as on the training ones; and train_agent.
CallerRewards == TrainRewards \cup {<<>>, <<<<0, 0>>>>, <<<<1, 0>>, <<0, 0>>>>}

CallerInit ==
    /\ walls \in WallSets
    /\ rewards \in CallerRewards
    /\ start \in Starts
    /\ agent_pos = start
    /\ current_reward = 0
    /\ env_call = [op |-> "init", action |-> "", pos |-> start, idx |-> 0,
                   kind |-> "return", state |-> <<>>, reward |-> -1, done |-> FALSE]
    /\ DefaultAgent
    /\ Idle

UseInit == CallerInit \/ TrainInit

UseNext ==
    \/ train.pc = "idle" /\ EnvNext
    \/ train.pc # "idle" /\ TrainNext

UseSpec == UseInit /\ [][UseNext]_vars

----------------------------------------------------------------------------
(* Properties of the environment, checked under EnvSpec.                   *)

\* the last call was step with one of the four actions
ValidStepCall == env_call.op = "step" /\ env_call.action \in Actions

\* the candidate cell of the last call was outside the grid or a wall
CandidateBlocked ==
    LET cand == Move(env_call.pos, env_call.action)
    IN  OutOfBounds(cand) \/ cand \in walls

\* when the last call was made there was a next uncollected reward, at cell
NextRewardWas(cell) ==
    env_call.idx < Len(rewards) /\ rewards[env_call.idx + 1] = cell

\* C1 as stated, for the calls that return: a step whose candidate cell is
\* outside the grid or a wall returns the unchanged position and reward 0 and
\* leaves rewardIndex as it was.
C1_BlockedMoveGivesNoReward ==
    (ValidStepCall /\ CandidateBlocked /\ env_call.kind = "return") =>
        /\ env_call.state[1] = env_call.pos
        /\ env_call.reward = 0
        /\ current_reward = env_call.idx

\* C1 amended: a step whose candidate cell is outside the grid or a wall
\* leaves the position unchanged; it returns reward 0 and leaves rewardIndex
\* as it was when the agent does not stand on the next uncollected reward,
\* and collects that reward (reward 1, rewardIndex + 1) when it does; in a
\* terminal state it raises with position and rewardIndex unchanged.
C1_BlockedMoveKeepsPosition ==
    (ValidStepCall /\ CandidateBlocked) =>
        /\ agent_pos = env_call.pos
        /\ (env_call.idx < Len(rewards) /\ ~NextRewardWas(env_call.pos)) =>
              /\ env_call.kind = "return"
              /\ env_call.state = <<env_call.pos, env_call.idx>>
              /\ env_call.reward = 0
              /\ current_reward = env_call.idx
        /\ NextRewardWas(env_call.pos) =>
              /\ env_call.kind = "return"
              /\ env_call.state = <<env_call.pos, env_call.idx + 1>>
              /\ env_call.reward = 1
              /\ current_reward = env_call.idx + 1
        /\ env_call.idx >= Len(rewards) =>
              /\ env_call.kind = "IndexError"
              /\ current_reward = env_call.idx

\* "up" from row 0 of a cell that is not the next reward: same position, reward 0
C1_Witness ==
    /\ ValidStepCall /\ CandidateBlocked
    /\ env_call.action = "up" /\ env_call.pos[1] = 0
    /\ env_call.kind = "return" /\ env_call.reward = 0
    /\ env_call.state[1] = env_call.pos

\* C2: step emits reward 1 and increments rewardIndex if and only if the
\* position after the move is RewardSequence[rewardIndex]; in every other cell
\* (an earlier or later reward cell included) the reward it emits is 0 and
\* rewardIndex is left unchanged.
C2_RewardOnlyForCurrent ==
    ValidStepCall =>
        LET hit == NextRewardWas(agent_pos) IN
        /\ hit <=> (env_call.kind = "return" /\ env_call.reward = 1)
        /\ hit <=> (current_reward = env_call.idx + 1)
        /\ ~hit => /\ current_reward = env_call.idx
                   /\ env_call.kind = "return" => env_call.reward = 0

\* the agent moved into a later cell of the sequence and got reward 0
C2_Witness ==
    /\ ValidStepCall /\ env_call.kind = "return"
    /\ agent_pos # env_call.pos
    /\ env_call.idx + 2 <= Len(rewards)
    /\ rewards[env_call.idx + 2] = agent_pos
    /\ rewards[env_call.idx + 1] # agent_pos
    /\ env_call.reward = 0 /\ current_reward = env_call.idx

\* C3: a call to step leaves rewardIndex unchanged or increases it by exactly 1.
C3_IndexStepsByAtMostOne ==
    env_call.op = "step" =>
        current_reward \in {env_call.idx, env_call.idx + 1}

\* a step that collected the first reward of a sequence of two
C3_Witness ==
    /\ env_call.op = "step" /\ Len(rewards) = 2
    /\ env_call.idx = 0 /\ current_reward = 1

\* C4: every step with a valid action returns done, true exactly when
\* rewardIndex equals len(RewardSequence); from a state where rewardIndex
\* already equals len(RewardSequence) a further step keeps it there and
\* returns done = true.
C4_DoneExactAndStable ==
    ValidStepCall =>
        /\ env_call.kind = "return"
        /\ env_call.done <=> (current_reward = Len(rewards))
        /\ env_call.idx = Len(rewards) =>
              (current_reward = Len(rewards) /\ env_call.done)

\* C5: step with an action that is none of the four raises the
\* invalid-argument error and leaves position and rewardIndex as they were.
C5_InvalidActionRejected ==
    (env_call.op = "step" /\ env_call.action \notin Actions) =>
        /\ env_call.kind = "ValueError"
        /\ agent_pos = env_call.pos
        /\ current_reward = env_call.idx

\* an invalid action in the middle of an episode, one reward collected
C5_Witness ==
    /\ env_call.op = "step" /\ env_call.action = "jump"
    /\ env_call.kind = "ValueError"
    /\ agent_pos # start /\ current_reward = 1 /\ Len(rewards) = 2

\* C6: step with any of the four valid actions returns a result without
\* raising, from every reachable state.
C6_ValidStepNeverRaises ==
    ValidStepCall => env_call.kind = "return"

\* C7: reset, from any state, sets the position to start and rewardIndex to 0,
\* returns (start, 0) without raising, and leaves walls, rewards and start
\* unchanged.
C7_ResetRestoresStart ==
    [][env_call'.op = "reset" =>
          /\ agent_pos' = start
          /\ current_reward' = 0
          /\ env_call'.kind = "return"
          /\ env_call'.state = <<start, 0>>
          /\ walls' = walls /\ rewards' = rewards /\ start' = start]_vars

\* a reset made in a terminal state, away from start
C7_Witness ==
    /\ env_call.op = "reset"
    /\ env_call.idx = Len(rewards) /\ Len(rewards) > 0
    /\ env_call.pos # start
    /\ agent_pos = start /\ current_reward = 0

----------------------------------------------------------------------------
(* Properties of update_epsilon, checked under EpsilonSpec.                *)

\* C8 as stated: every update_epsilon call leaves epsilon less than or equal
\* to its previous value, and at least epsilon_min.
C8_EpsilonNeverIncreases ==
    agent_call.op = "update_epsilon" =>
        /\ epsilon <= agent_call.epsilon
        /\ epsilon >= epsilon_min

\* C8 amended: after every update_epsilon call epsilon is at least
\* epsilon_min; the call leaves epsilon less than or equal to its previous
\* value when that value was at least epsilon_min, and raises epsilon to
\* epsilon_min when it was below.
C8_EpsilonDecaysToFloor ==
    agent_call.op = "update_epsilon" =>
        /\ epsilon >= epsilon_min
        /\ agent_call.epsilon >= epsilon_min => epsilon <= agent_call.epsilon
        /\ agent_call.epsilon < epsilon_min => epsilon = epsilon_min

\* a second call that lowered epsilon and left it above the floor
C8_Witness ==
    /\ agent_call.op = "update_epsilon" /\ ncalls = 2
    /\ epsilon < agent_call.epsilon
    /\ epsilon > epsilon_min /\ epsilon_min > 0

----------------------------------------------------------------------------
(* Properties of learn, checked under LearnSpec.                           *)

\* Q[state][action] before the last call, an unseen state counting as zeros
OldQ(state, action) ==
    IF state \in DOMAIN agent_call.Q THEN agent_call.Q[state][action] ELSE 0

\* maxNextQ of the last learn call, from the table before the call
OldMaxNext ==
    IF agent_call.done THEN 0
    ELSE LET vals == {OldQ(agent_call.next_state, b) : b \in Range(actions)}
         IN  CHOOSE v \in vals : \A w \in vals : w <= v

\* reward + gamma * maxNextQ of the last learn call
Target == FAdd(FromInt(agent_call.reward), FMul(gamma, OldMaxNext))

LearnedQ == Q[agent_call.state][agent_call.action]

\* C9: learn sets Q[state][action] to
\* currentQ + alpha * (reward + gamma * maxNextQ - currentQ), currentQ the
\* prior value, maxNextQ 0 when done and else the maximum of Q[nextState],
\* an unseen nextState counting as all zeros.
C9_LearnRule ==
    agent_call.op = "learn" =>
        LET currentQ == OldQ(agent_call.state, agent_call.action) IN
        LearnedQ =
            FAdd(currentQ,
                 FMul(alpha,
                      FSub(FAdd(FromInt(agent_call.reward),
                                FMul(gamma, OldMaxNext)),
                           currentQ)))

\* a bootstrapped update: not done, a successor with a positive value, and a
\* value that changed
C9_Witness ==
    /\ agent_call.op = "learn" /\ ~agent_call.done
    /\ agent_call.next_state # agent_call.state
    /\ OldMaxNext > 0
    /\ agent_call.reward = 1
    /\ LearnedQ # OldQ(agent_call.state, agent_call.action)

\* C10 as stated, for an old value that differs from the target: the new
\* value is strictly between the old value and the target when alpha is in
\* (0,1), and equals the target when alpha == 1.
C10_StrictlyBetween ==
    (agent_call.op = "learn"
        /\ OldQ(agent_call.state, agent_call.action) # Target) =>
        LET old == OldQ(agent_call.state, agent_call.action)
            new == LearnedQ
        IN  /\ (0 < alpha /\ alpha < Unit) =>
                  \/ old < new /\ new < Target
                  \/ Target < new /\ new < old
            /\ alpha = Unit => new = Target

\* C10 amended: when alpha is in (0,1) the new value lies between the old
\* value and the target, ends included; when alpha == 1 it equals the target
\* provided target - old is a float (the subtraction does not round); when
\* the old value is the target it stays there.
C10_Between ==
    agent_call.op = "learn" =>
        LET old == OldQ(agent_call.state, agent_call.action)
            new == LearnedQ
        IN  /\ (0 < alpha /\ alpha < Unit) =>
                  \/ old <= new /\ new <= Target
                  \/ Target <= new /\ new <= old
            /\ (alpha = Unit /\ IsFloat(Target - old)) => new = Target
            /\ old = Target => new = old

\* alpha in (0,1), and a new value strictly between a positive old value and
\* the target
C10_Witness ==
    /\ agent_call.op = "learn"
    /\ 0 < alpha /\ alpha < Unit
    /\ OldQ(agent_call.state, agent_call.action) > 0
    /\ OldQ(agent_call.state, agent_call.action) < LearnedQ
    /\ LearnedQ < Target

\* C11 as stated: after learn every entry of the table other than
\* Q[state][action] was in the table before the call, with the same value.
C11_NothingElseTouched ==
    agent_call.op = "learn" =>
        \A s \in DOMAIN Q : \A a \in DOMAIN Q[s] :
            <<s, a>> # <<agent_call.state, agent_call.action>> =>
                /\ s \in DOMAIN agent_call.Q
                /\ Q[s][a] = agent_call.Q[s][a]

\* C11 amended: learn changes no value other than Q[state][action] and
\* deletes nothing; the only other change to the table is that state and
\* nextState, when they were not in it, get an entry with every action at
\* 0.0; actions and the policy parameters are unchanged.
C11_LearnFrame ==
    [][agent_call'.op = "learn" =>
          LET st == agent_call'.state
              ac == agent_call'.action
              ns == agent_call'.next_state
          IN  /\ DOMAIN Q' = DOMAIN Q \cup {st, ns}
              /\ \A s \in DOMAIN Q' :
                    /\ DOMAIN Q'[s] = Range(actions)
                    /\ \A a \in Range(actions) :
                          <<s, a>> # <<st, ac>> =>
                              Q'[s][a] = IF s \in DOMAIN Q THEN Q[s][a] ELSE 0
              /\ actions' = actions
              /\ alpha' = alpha /\ gamma' = gamma
              /\ epsilon' = epsilon
              /\ epsilon_decay' = epsilon_decay
              /\ epsilon_min' = epsilon_min]_vars

\* a learn call that wrote a new value, created the entry of an unseen
\* nextState and kept a positive value of another action of state
C11_Witness ==
    /\ agent_call.op = "learn"
    /\ agent_call.next_state \notin DOMAIN agent_call.Q
    /\ agent_call.next_state \in DOMAIN Q
    /\ agent_call.state \in DOMAIN agent_call.Q
    /\ LearnedQ # OldQ(agent_call.state, agent_call.action)
    /\ \E a \in Range(actions) :
          /\ a # agent_call.action
          /\ Q[agent_call.state][a] > 0
          /\ Q[agent_call.state][a] = agent_call.Q[agent_call.state][a]

----------------------------------------------------------------------------
(* Properties of choose_action, checked under ChooseSpec.                  *)

\* the actions whose value for state s is the largest of the row, the row
\* being all-zero when s is not in the table yet
Maximal(s) ==
    LET row == IF s \in DOMAIN Q THEN Q[s] ELSE [a \in Range(actions) |-> 0]
    IN  {a \in Range(actions) : \A b \in Range(actions) : row[b] <= row[a]}

\* C14: choose_action returns a member of the action set; when it does not
\* explore, and it never explores at epsilon == 0, no action has a larger
\* Q-value for the state than the returned one; and for every state, every
\* action of maximal value is a possible result of a call that does not
\* explore.
C14_GreedyChoice ==
    /\ agent_call.op = "choose_action" =>
          /\ agent_call.action \in Range(actions)
          /\ agent_call.epsilon = 0 => ~agent_call.explore
          /\ ~agent_call.explore => agent_call.action \in Maximal(agent_call.state)
    /\ epsilon < Unit =>
          \A s \in QStates : \A a \in Maximal(s) :
              ENABLED (/\ choose_action(s)
                       /\ ~agent_call'.explore
                       /\ agent_call'.action = a)

\* a call that did not explore although it could have, on a state whose
\* actions have different values
C14_Witness ==
    /\ agent_call.op = "choose_action"
    /\ ~agent_call.explore
    /\ agent_call.epsilon > 0
    /\ agent_call.state \in DOMAIN agent_call.Q
    /\ Maximal(agent_call.state) # Range(actions)

----------------------------------------------------------------------------
(* Properties of the table of a fresh agent, checked under AgentSpec.      *)

\* the value the call just made wrote with line 51
Written(s, a) ==
    /\ agent_call'.op = "learn"
    /\ s = agent_call'.state
    /\ a = agent_call'.action

\* C15: over any sequence of choose_action, learn and update_epsilon calls
\* on a fresh agent, every state of the table maps exactly the action set to
\* values; no entry is deleted; an entry is created only for a state the call
\* was given and did not have yet, with every action at 0.0 (learn then
\* writes its one value); an entry that exists is not initialised again.
C15_TableShape ==
    [][/\ \A s \in DOMAIN Q' : DOMAIN Q'[s] = Range(actions')
       /\ DOMAIN Q \subseteq DOMAIN Q'
       /\ \A s \in DOMAIN Q' \ DOMAIN Q :
             /\ s \in {agent_call'.state, agent_call'.next_state}
             /\ \A a \in Range(actions) : Written(s, a) \/ Q'[s][a] = 0
       /\ \A s \in DOMAIN Q :
             \A a \in Range(actions) : Written(s, a) \/ Q'[s][a] = Q[s][a]
      ]_vars

\* choose_action created the entry of an unseen state in a table that holds
\* a learned value already
C15_Witness ==
    /\ agent_call.op = "choose_action"
    /\ agent_call.state \notin DOMAIN agent_call.Q
    /\ agent_call.state \in DOMAIN Q
    /\ \E s \in DOMAIN agent_call.Q : \E a \in Range(actions) :
          Q[s][a] > 0

----------------------------------------------------------------------------
(* Properties of save and load, checked under PersistSpec.                 *)

\* C16: a load that returns installs a table equal to the table that was
\* saved, whatever table it was, and changes nothing else of the agent:
\* actions, alpha, gamma, epsilon, epsilon_decay and epsilon_min are what
\* they were before the call (their construction values in a fresh agent).
C16_LoadRestoresSaved ==
    [][(agent_call'.op = "load" /\ agent_call'.kind = "return") =>
          /\ Q' = file.saved
          /\ actions' = actions
          /\ alpha' = alpha /\ gamma' = gamma
          /\ epsilon' = epsilon
          /\ epsilon_decay' = epsilon_decay
          /\ epsilon_min' = epsilon_min]_vars

\* a fresh agent, constructed with epsilon = 0, loaded a saved table that
\* holds an all-zero entry
C16_Witness ==
    /\ agent_call.op = "load"
    /\ agent_call.kind = "return"
    /\ agent_call.Q = <<>>
    /\ epsilon = 0
    /\ Q = file.saved
    /\ \E s \in DOMAIN Q : \A a \in Range(actions) : Q[s][a] = 0

\* the same, with the empty table saved and loaded
C16_WitnessEmpty ==
    /\ agent_call.op = "load"
    /\ agent_call.kind = "return"
    /\ file.saved = <<>>
    /\ Q = <<>>

----------------------------------------------------------------------------
(* Properties of train_agent, checked under TrainSpec.                     *)

\* this step of train_agent ends an episode
EpisodeEnds == train'.episode # train.episode

\* C12: in train_agent an episode ends with one update_epsilon call and in
\* no other way; the call comes right after the step/learn pair that ended
\* the episode, by done or by the step cap, with no environment call in
\* between, and the next reset comes after it; update_epsilon is called at
\* no other point, and epsilon changes at no other point.
C12_DecayOncePerEpisode ==
    [][/\ EpisodeEnds =>
             /\ train'.episode = train.episode + 1
             /\ agent_call'.op = "update_epsilon"
             /\ ncalls' = ncalls + 1
             /\ agent_call.op = "learn"
             /\ env_call.op = "step"
             /\ env_call' = env_call
             /\ env_call.done \/ train.step + 1 = MaxSteps
       /\ (ncalls' # ncalls /\ agent_call'.op = "update_epsilon") => EpisodeEnds
       /\ epsilon' # epsilon => EpisodeEnds
       /\ (env_call'.op = "reset" /\ env_call.op # "reset") =>
             \/ train.episode = 0
             \/ agent_call.op = "update_epsilon"
      ]_vars

\* the second episode has ended by the step cap and epsilon has decayed twice
C12_Witness ==
    /\ train.pc = "episode"
    /\ train.episode = 2
    /\ agent_call.op = "update_epsilon"
    /\ env_call.op = "step"
    /\ ~env_call.done
    /\ epsilon < agent_call.epsilon
    /\ agent_call.epsilon < Unit

\* the last environment call was a step that returned done
DoneReturned == env_call.op = "step" /\ env_call.kind = "return" /\ env_call.done

\* C17: an episode of train_agent takes its next step only when no step of
\* the episode has returned done and fewer than max_steps steps were taken;
\* it ends when a step returned done or when exactly max_steps steps were
\* taken, and not before; no call raises; and train_agent returns, after
\* num_episodes episodes.
C17_EpisodesEndAndTrainingReturns ==
    /\ [](/\ train.pc \in {"choose", "step"} =>
                /\ ~DoneReturned
                /\ train.step < MaxSteps
          /\ train.pc = "learn" => train.step < MaxSteps
          /\ train.pc = "decay" =>
                \/ DoneReturned /\ train.step + 1 <= MaxSteps
                \/ ~DoneReturned /\ train.step + 1 = MaxSteps
          /\ train.pc # "raised"
          /\ train.pc = "return" => train.episode = NumEpisodes)
    /\ [][EpisodeEnds => DoneReturned \/ train.step + 1 = MaxSteps]_vars
    /\ <>(train.pc = "return")

\* train_agent has returned; its last episode ended at its first step, which
\* returned done
C17_Witness ==
    /\ train.pc = "return"
    /\ train.episode = NumEpisodes
    /\ DoneReturned
    /\ train.step = 0
    /\ train.total_reward = 1

\* train_agent has returned; its last episode ended by the step cap
C17_WitnessCap ==
    /\ train.pc = "return"
    /\ ~DoneReturned
    /\ train.step + 1 = MaxSteps

\* the environment's current (position, rewardIndex)
EnvState == <<agent_pos, current_reward>>

\* C18: in train_agent the loop's state is the environment's state when
\* choose_action is called with it; a learn call has as arguments the state
\* the environment was in before the last step, the action of that step and
\* the reward, state and done flag it returned; and the step after an
\* env.step that returned is that learn call, which leaves the environment
\* alone.
C18_LearnGetsTheTransition ==
    /\ [](/\ train.pc = "choose" => train.state = EnvState
          /\ (train.pc = "step" /\ agent_call.op = "choose_action") =>
                agent_call.state = EnvState
          /\ agent_call.op = "learn" =>
                /\ env_call.op = "step" /\ env_call.kind = "return"
                /\ agent_call.state = <<env_call.pos, env_call.idx>>
                /\ agent_call.action = env_call.action
                /\ agent_call.reward = env_call.reward
                /\ agent_call.next_state = env_call.state
                /\ agent_call.done = env_call.done)
    /\ [][/\ (train.pc = "step" /\ env_call'.kind = "return") =>
                train'.pc = "learn"
          /\ train.pc = "learn" =>
                /\ agent_call'.op = "learn"
                /\ ncalls' = ncalls + 1
                /\ envVars' = envVars]_vars

\* a learn call for a step that moved the agent onto the last reward
C18_Witness ==
    /\ agent_call.op = "learn"
    /\ agent_call.reward = 1
    /\ agent_call.done
    /\ agent_call.state[1] # agent_call.next_state[1]
    /\ agent_call.next_state = EnvState
    /\ Len(rewards) = 2

\* a state whose rewardIndex is len(rewards)
Terminal(s) == s[2] = Len(rewards)

\* C20: during train_agent no learn call has a terminal state as its source
\* state, and every terminal state in the Q-table has the value 0.0 for
\* every action.
C20_TerminalEntriesStayZero ==
    /\ agent_call.op = "learn" => ~Terminal(agent_call.state)
    /\ \A s \in DOMAIN Q :
          Terminal(s) => \A a \in Range(actions) : Q[s][a] = 0

\* a learn call of a later episode, made with the entry of a terminal state
\* in the table and a learned value next to it
C20_Witness ==
    /\ agent_call.op = "learn"
    /\ train.episode >= 1
    /\ \E s \in DOMAIN agent_call.Q : Terminal(s)
    /\ \E s \in DOMAIN agent_call.Q : \E a \in Range(actions) :
          agent_call.Q[s][a] > 0
    /\ Q # agent_call.Q

----------------------------------------------------------------------------
(* Properties of the states of the environment, checked under UseSpec.     *)

\* s is a (position, rewardIndex) with the position in the grid and not a
\* wall and the index in [0, len(rewards)]
ValidState(s) ==
    /\ s[1] \in Cells
    /\ s[1] \notin walls
    /\ s[2] \in 0 .. Len(rewards)

\* C19: when start is in the grid and not a wall, after any sequence of
\* reset and step calls (of any caller, and of train_agent) the position is
\* in the grid and not a wall and rewardIndex is in [0, len(rewards)]; so is
\* every state reset or step returned, and so is every key of the Q-table
\* that train_agent fills.
C19_StatesAreValid ==
    (start \in Cells /\ start \notin walls) =>
        /\ ValidState(EnvState)
        /\ (env_call.op \in {"reset", "step"} /\ env_call.kind = "return") =>
              ValidState(env_call.state)
        /\ \A s \in DOMAIN Q : ValidState(s)

\* train_agent, on a grid with a wall next to start, has put a terminal
\* state and two more states into the table and has just walked into the wall
C19_Witness ==
    /\ train.pc = "learn"
    /\ walls # {}
    /\ \E s \in DOMAIN Q : s[2] = Len(rewards)
    /\ Cardinality(DOMAIN Q) >= 3
    /\ Move(env_call.pos, env_call.action) \in walls
    /\ agent_pos = env_call.pos

\* a caller's step raised IndexError in a terminal state after moving the
\* agent
C19_WitnessCaller ==
    /\ train.pc = "idle"
    /\ start \notin walls
    /\ env_call.kind = "IndexError"
    /\ agent_pos # env_call.pos

====
